---- MODULE Spec2Model ----
(***************************************************************************)
(* Model of my-openai-proxy: a reverse proxy in front of the OpenAI API.   *)
(*                                                                         *)
(* The repository holds two programs with the same handler name:           *)
(*   - src/main.go (lines 1-154): the proxy with the total access count    *)
(*     limit (mutex-protected counter) and the virtual-key substitution;   *)
(*   - src/unnamed/part_000 (repeated, with comments, at src/main.go       *)
(*     156-263): the earlier proxy with the substitution only.             *)
(* The variable `program` says which of the two is running.                *)
(*                                                                         *)
(* Strings are TLA+ strings; HasPrefix, TrimPrefix, TrimSpace and Split    *)
(* are computed character by character with Len, SubSeq and \o.            *)
(***************************************************************************)
EXTENDS Integers, Sequences, FiniteSets, Bags, TLC

\* ------------------------------------------------------------------ bounds

\* number of inbound requests (goroutines of http.ListenAndServe)
MaxReq == 2

\* length of the generated virtual key files
MaxFileLen == 4

\* ------------------------------------------------------- program constants

\* const HOST_OPENAI_API
HOST_OPENAI_API == "api.openai.com"

\* default of -access-count-limit: "Use -1 for no limit."
NoLimit == -1

\* http.StatusUnprocessableEntity
StatusUnprocessableEntity == 422

\* ----------------------------------------------------------------- strings

\* the characters strings.TrimSpace removes
IsSpace(c) == c \in {" ", "\t", "\n", "\r"}

\* strings.HasPrefix
HasPrefix(s, prefix) ==
    /\ Len(s) >= Len(prefix)
    /\ SubSeq(s, 1, Len(prefix)) = prefix

\* strings.TrimPrefix
TrimPrefix(s, prefix) ==
    IF HasPrefix(s, prefix) THEN SubSeq(s, Len(prefix) + 1, Len(s)) ELSE s

RECURSIVE TrimLeft(_)
TrimLeft(s) ==
    IF Len(s) > 0 /\ IsSpace(SubSeq(s, 1, 1))
    THEN TrimLeft(SubSeq(s, 2, Len(s)))
    ELSE s

RECURSIVE TrimRight(_)
TrimRight(s) ==
    IF Len(s) > 0 /\ IsSpace(SubSeq(s, Len(s), Len(s)))
    THEN TrimRight(SubSeq(s, 1, Len(s) - 1))
    ELSE s

\* trimming on the left only
TrimSpaceLeftOnly(s) == TrimLeft(s)

\* strings.TrimSpace
TrimSpace(s) == TrimRight(TrimLeft(s))

\* strings.Split(s, "\n"): the pieces between the newlines, in order
RECURSIVE SplitFrom(_, _, _)
SplitFrom(s, i, cur) ==
    IF i > Len(s) THEN <<cur>>
    ELSE IF SubSeq(s, i, i) = "\n"
         THEN <<cur>> \o SplitFrom(s, i + 1, "")
         ELSE SplitFrom(s, i + 1, cur \o SubSeq(s, i, i))

Split(s) == SplitFrom(s, 1, "")

\* strings.Contains, to tell whether a text carries the secret
Contains(s, sub) ==
    \E i \in 1..(Len(s) + 1) :
        /\ i + Len(sub) - 1 <= Len(s)
        /\ SubSeq(s, i, i + Len(sub) - 1) = sub

\* ------------------------------------------------------------ configuration

\* contents of the virtual key file the program may be started with
KeyFiles == { "  abc\n\n tok2 \nabc\n" }

\* the characters of the generated files
FileChars == { "a", " ", "\n" }

\* all strings of FileChars up to a length
RECURSIVE FilesUpTo(_)
FilesUpTo(n) ==
    IF n = 0 THEN { "" }
    ELSE LET shorter == FilesUpTo(n - 1)
         IN  shorter \cup { f \o c : f \in shorter, c \in FileChars }

\* contents of the virtual key file when the loading itself is examined
ConfigFiles ==
    KeyFiles \cup { "  tok1\n\n tok2 \n", "a\r\n\tb\n" } \cup FilesUpTo(MaxFileLen)

\* value of the OPENAI_API_KEY environment variable (non-empty, or config
\* ends the process with log.Fatal)
Secrets == { "real" }

\* -access-count-limit: no limit, or a ceiling
Limits == {NoLimit} \cup (0..MaxReq)

\* the loading without the test for empty lines
LoadKeysKeepEmpty(content) ==
    LET lines == Split(content)
    IN  { TrimSpace(lines[i]) : i \in 1..Len(lines) }

\* config(): the keys of the file, each line trimmed, empty lines dropped
LoadKeys(content) ==
    LET lines == Split(content)
    IN  { TrimSpace(lines[i]) : i \in { j \in 1..Len(lines) : TrimSpace(lines[j]) # "" } }

\* ----------------------------------------------------------------- requests

Reqs == 1..MaxReq

\* http.Header: a function from the names of the headers present to values
\* Header.Get: the value, "" when the header is absent
Get(header, name) == IF name \in DOMAIN header THEN header[name] ELSE ""

\* Header.Set
Set(header, name, value) ==
    [n \in DOMAIN header \cup {name} |-> IF n = name THEN value ELSE header[n]]

\* an inbound request as net/http hands it to the handler: server requests
\* carry a relative URL (no scheme, no host) and the Host header in Host
Inbound(method, path, query, body, header) ==
    [Method |-> method,
     URL    |-> [Scheme |-> "", Host |-> "", Path |-> path, RawQuery |-> query],
     Host   |-> "proxy:48080",
     Header |-> header,
     Body   |-> body]

\* the headers every caller sends besides Authorization
Plain == [n \in {"Accept"} |-> "*/*"]

\* the requests callers send
Requests ==
    { Inbound("GET",  "/v1/models", "", "", Plain),
      Inbound("POST", "/v1/chat/completions", "stream=true", "{}",
              Set(Plain, "Authorization", "Bearer abc")),
      Inbound("POST", "/v1/chat/completions", "", "{}",
              Set(Plain, "Authorization", "Bearer xyz")),
      Inbound("GET",  "/v1/models", "limit=2", "",
              Set(Plain, "Authorization", "Basic abc")),
      Inbound("GET",  "/v1/models", "", "",
              Set(Plain, "Authorization", "Bearer real")) }

\* no request yet, no response yet
NoRequest ==
    [Method |-> "",
     URL    |-> [Scheme |-> "", Host |-> "", Path |-> "", RawQuery |-> ""],
     Host   |-> "",
     Header |-> [n \in {} |-> ""],
     Body   |-> ""]
NoResponse == [Status |-> 0, From |-> "none", Body |-> ""]

\* r.RemoteAddr: every request comes over its own connection
RemoteAddr(r) == r

\* -------------------------------------------------------------------- state

VARIABLES
    program,           \* "main" (src/main.go) or "legacy" (src/unnamed/part_000)
    accessCountLimit,  \* var accessCountLimit int64
    accessCounter,     \* var accessCounter int64
    mu,                \* var mu sync.Mutex: 0 when free, else the holder
    realKey,           \* var realKey string (true_key in part_000)
    virtualKeys,       \* var virtualKeys map[string]bool, as its key set
    content,           \* content of the virtual keys file, as config read it
    line,              \* number of lines config's loop has been through
    pc,                \* where each request's handler is
    r_in,              \* r *http.Request of each handler
    count,             \* local count of each handler (0: not yet assigned)
    key,               \* local key of each handler
    outreq,            \* the request handed to the transport, per handler
    calls,             \* number of upstream round trips started, per handler
    resp,              \* what the caller receives, per handler
    logs               \* the log, a bag of records

vars == <<program, accessCountLimit, accessCounter, mu, realKey, virtualKeys,
          content, line, pc, r_in, count, key, outreq, calls, resp, logs>>

config == <<program, accessCountLimit, realKey, virtualKeys, content, line>>

\* log.Printf: one more record in the log
Printf(rec) == logs' = logs (+) SetToBag({rec})

\* Init: flag.Parse and config() have run, no request has been accepted
Init ==
    /\ program \in {"main", "legacy"}
    /\ accessCountLimit \in (IF program = "main" THEN Limits ELSE {NoLimit})
    /\ accessCounter = 0
    /\ mu = 0
    /\ realKey \in Secrets
    /\ content \in KeyFiles
    /\ line = Len(Split(content))
    /\ virtualKeys = LoadKeys(content)
    /\ pc = [r \in Reqs |-> "idle"]
    /\ r_in = [r \in Reqs |-> NoRequest]
    /\ count = [r \in Reqs |-> 0]
    /\ key = [r \in Reqs |-> ""]
    /\ outreq = [r \in Reqs |-> NoRequest]
    /\ calls = [r \in Reqs |-> 0]
    /\ resp = [r \in Reqs |-> NoResponse]
    /\ logs = EmptyBag

\* ------------------------------------------------------- config, the loop

\* config() up to its loop: the real key and the file have been read, no
\* line has been looked at, no request is served yet
InitConfig ==
    /\ program \in {"main", "legacy"}
    /\ accessCountLimit = NoLimit
    /\ accessCounter = 0
    /\ mu = 0
    /\ realKey \in Secrets
    /\ content \in ConfigFiles
    /\ line = 0
    /\ virtualKeys = {}
    /\ pc = [r \in Reqs |-> "idle"]
    /\ r_in = [r \in Reqs |-> NoRequest]
    /\ count = [r \in Reqs |-> 0]
    /\ key = [r \in Reqs |-> ""]
    /\ outreq = [r \in Reqs |-> NoRequest]
    /\ calls = [r \in Reqs |-> 0]
    /\ resp = [r \in Reqs |-> NoResponse]
    /\ logs = EmptyBag

\* one turn of: for _, line := range strings.Split(string(content), "\n") {
\*   trimmedLine := strings.TrimSpace(line)
\*   if trimmedLine != "" { virtualKeys[trimmedLine] = true } }
configLine ==
    /\ line < Len(Split(content))
    /\ LET trimmedLine == TrimSpace(Split(content)[line + 1])
       IN  virtualKeys' = IF trimmedLine # ""
                          THEN virtualKeys \cup {trimmedLine}
                          ELSE virtualKeys
    /\ line' = line + 1
    /\ UNCHANGED <<program, accessCountLimit, realKey, content, accessCounter, mu,
                   pc, r_in, count, key, outreq, calls, resp, logs>>

NextConfig == configLine

SpecConfig == InitConfig /\ [][NextConfig]_vars

\* --------------------------------------------- http.ListenAndServe (main)

\* the server accepts a request and starts ReverseProxyHandler(w, r) in a
\* goroutine of its own
Serve(r, req) ==
    /\ pc[r] = "idle"
    /\ r_in' = [r_in EXCEPT ![r] = req]
    /\ pc' = [pc EXCEPT ![r] = IF program = "main" THEN "lock" ELSE "logauth"]
    /\ UNCHANGED <<config, accessCounter, mu, count, key, outreq, calls, resp, logs>>

\* ------------------------------------- ReverseProxyHandler, src/main.go

\* Lock as it would be were the mutex not taken: the handler goes on at once
LockNoMutex(r) ==
    /\ pc[r] = "lock"
    /\ mu' = r
    /\ pc' = [pc EXCEPT ![r] = "inc"]
    /\ UNCHANGED <<config, accessCounter, r_in, count, key, outreq, calls, resp, logs>>

\* mu.Lock(): blocks while another handler holds the mutex
Lock(r) ==
    /\ pc[r] = "lock"
    /\ mu = 0
    /\ mu' = r
    /\ pc' = [pc EXCEPT ![r] = "inc"]
    /\ UNCHANGED <<config, accessCounter, r_in, count, key, outreq, calls, resp, logs>>

\* accessCounter++
Increment(r) ==
    /\ pc[r] = "inc"
    /\ accessCounter' = accessCounter + 1
    /\ pc' = [pc EXCEPT ![r] = "copy"]
    /\ UNCHANGED <<config, mu, r_in, count, key, outreq, calls, resp, logs>>

\* the copy taken as if it came before the increment
CopyBeforeIncrement(r) ==
    /\ pc[r] = "copy"
    /\ count' = [count EXCEPT ![r] = accessCounter - 1]
    /\ pc' = [pc EXCEPT ![r] = "unlock"]
    /\ UNCHANGED <<config, accessCounter, mu, r_in, key, outreq, calls, resp, logs>>

\* count := accessCounter
Copy(r) ==
    /\ pc[r] = "copy"
    /\ count' = [count EXCEPT ![r] = accessCounter]
    /\ pc' = [pc EXCEPT ![r] = "unlock"]
    /\ UNCHANGED <<config, accessCounter, mu, r_in, key, outreq, calls, resp, logs>>

\* a path that leaves the critical section without releasing the mutex
UnlockLeak(r) ==
    /\ pc[r] = "unlock"
    /\ pc' = [pc EXCEPT ![r] = "logreq"]
    /\ UNCHANGED <<config, accessCounter, mu, r_in, count, key, outreq, calls, resp, logs>>

\* mu.Unlock()
Unlock(r) ==
    /\ pc[r] = "unlock"
    /\ mu' = 0
    /\ pc' = [pc EXCEPT ![r] = "logreq"]
    /\ UNCHANGED <<config, accessCounter, r_in, count, key, outreq, calls, resp, logs>>

\* the request log reading the shared counter instead of the local count
LogRequestSharedCounter(r) ==
    /\ pc[r] = "logreq"
    /\ Printf([msg |-> "request", no |-> accessCounter, addr |-> RemoteAddr(r), text |-> ""])
    /\ pc' = [pc EXCEPT ![r] = "check"]
    /\ UNCHANGED <<config, accessCounter, mu, r_in, count, key, outreq, calls, resp>>

\* log.Printf("*** request No.%d from %s\n", count, r.RemoteAddr)
LogRequest(r) ==
    /\ pc[r] = "logreq"
    /\ Printf([msg |-> "request", no |-> count[r], addr |-> RemoteAddr(r), text |-> ""])
    /\ pc' = [pc EXCEPT ![r] = "check"]
    /\ UNCHANGED <<config, accessCounter, mu, r_in, count, key, outreq, calls, resp>>

\* the limit check with >= for >
LimitExceededGe(limit, n) == limit # NoLimit /\ n >= limit

\* the limit check one request late
LimitExceededOffByOne(limit, n) == limit # NoLimit /\ n > limit + 1

\* the condition of the total access limit check
LimitExceeded(limit, n) == limit # NoLimit /\ n > limit

\* the limit check without its return: the 422 is written and the handler
\* goes on to forward the request
CheckLimitNoReturn(r) ==
    /\ pc[r] = "check"
    /\ IF LimitExceeded(accessCountLimit, count[r])
       THEN /\ Printf([msg |-> "limit exceeded", no |-> accessCountLimit,
                       addr |-> 0, text |-> ""])
            /\ resp' = [resp EXCEPT ![r] =
                          [Status |-> StatusUnprocessableEntity, From |-> "handler",
                           Body |-> "Total access count limit exceeded.\n"]]
       ELSE UNCHANGED <<resp, logs>>
    /\ pc' = [pc EXCEPT ![r] = "auth"]
    /\ UNCHANGED <<config, accessCounter, mu, r_in, count, key, outreq, calls>>

\* the limit check giving the ordinal of a rejected request back
CheckLimitRefund(r) ==
    /\ pc[r] = "check"
    /\ IF LimitExceeded(accessCountLimit, count[r])
       THEN /\ Printf([msg |-> "limit exceeded", no |-> accessCountLimit,
                       addr |-> 0, text |-> ""])
            /\ resp' = [resp EXCEPT ![r] =
                          [Status |-> StatusUnprocessableEntity, From |-> "handler",
                           Body |-> "Total access count limit exceeded.\n"]]
            /\ accessCounter' = accessCounter - 1
            /\ pc' = [pc EXCEPT ![r] = "done"]
       ELSE /\ pc' = [pc EXCEPT ![r] = "auth"]
            /\ UNCHANGED <<resp, logs, accessCounter>>
    /\ UNCHANGED <<config, mu, r_in, count, key, outreq, calls>>

\* if accessCountLimit != -1 && count > accessCountLimit { warn; 422; return }
CheckLimit(r) ==
    /\ pc[r] = "check"
    /\ IF LimitExceeded(accessCountLimit, count[r])
       THEN /\ Printf([msg |-> "limit exceeded", no |-> accessCountLimit,
                       addr |-> 0, text |-> ""])
            /\ resp' = [resp EXCEPT ![r] =
                          [Status |-> StatusUnprocessableEntity, From |-> "handler",
                           Body |-> "Total access count limit exceeded.\n"]]
            /\ pc' = [pc EXCEPT ![r] = "done"]
       ELSE /\ pc' = [pc EXCEPT ![r] = "auth"]
            /\ UNCHANGED <<resp, logs>>
    /\ UNCHANGED <<config, accessCounter, mu, r_in, count, key, outreq, calls>>

\* the extraction without the HasPrefix test
BearerKeyNoPrefixCheck(authHeader) == TrimPrefix(authHeader, "Bearer ")

\* authHeader := r.Header.Get("Authorization"); the key after "Bearer ", or
\* "" when the header does not start with "Bearer "
BearerKey(authHeader) ==
    IF HasPrefix(authHeader, "Bearer ") THEN TrimPrefix(authHeader, "Bearer ") ELSE ""

\* key := ""; authHeader := ...; if strings.HasPrefix(...) { key = ... }
ExtractKey(r) ==
    /\ pc[r] = "auth"
    /\ key' = [key EXCEPT ![r] = BearerKey(Get(r_in[r].Header, "Authorization"))]
    /\ pc' = [pc EXCEPT ![r] = "lookup"]
    /\ UNCHANGED <<config, accessCounter, mu, r_in, count, outreq, calls, resp, logs>>

\* _, exists := virtualKeys[key]
IsVirtualKey(k) == k \in virtualKeys

\* the lookup that never substitutes
LookupKeyNoSubstitute(r) ==
    /\ pc[r] = "lookup"
    /\ IF IsVirtualKey(key[r])
       THEN UNCHANGED logs
       ELSE Printf([msg |-> "no virtual key", no |-> 0, addr |-> 0, text |-> ""])
    /\ pc' = [pc EXCEPT ![r] = "serve"]
    /\ UNCHANGED <<config, accessCounter, mu, r_in, count, key, outreq, calls, resp>>

\* the lookup that uses the real key whether or not the key is virtual
LookupKeyAlwaysReal(r) ==
    /\ pc[r] = "lookup"
    /\ key' = [key EXCEPT ![r] = realKey]
    /\ IF IsVirtualKey(key[r])
       THEN UNCHANGED logs
       ELSE Printf([msg |-> "no virtual key", no |-> 0, addr |-> 0, text |-> ""])
    /\ pc' = [pc EXCEPT ![r] = "serve"]
    /\ UNCHANGED <<config, accessCounter, mu, r_in, count, outreq, calls, resp>>

\* the lookup with its assignment the wrong way round: realKey = key
LookupKeyOverwritesReal(r) ==
    /\ pc[r] = "lookup"
    /\ IF IsVirtualKey(key[r])
       THEN /\ realKey' = key[r]
            /\ UNCHANGED logs
       ELSE /\ Printf([msg |-> "no virtual key", no |-> 0, addr |-> 0, text |-> ""])
            /\ UNCHANGED realKey
    /\ pc' = [pc EXCEPT ![r] = "serve"]
    /\ UNCHANGED <<program, accessCountLimit, virtualKeys, content, line,
                   accessCounter, mu, r_in, count, key, outreq, calls, resp>>

\* if exists { key = realKey } else { log.Printf("... No virtual key found") }
LookupKey(r) ==
    /\ pc[r] = "lookup"
    /\ IF IsVirtualKey(key[r])
       THEN /\ key' = [key EXCEPT ![r] = realKey]
            /\ UNCHANGED logs
       ELSE /\ Printf([msg |-> "no virtual key", no |-> 0, addr |-> 0, text |-> ""])
            /\ UNCHANGED key
    /\ pc' = [pc EXCEPT ![r] = "serve"]
    /\ UNCHANGED <<config, accessCounter, mu, r_in, count, outreq, calls, resp>>

\* the director building the outbound headers afresh
directorFreshHeader(req, k) ==
    [req EXCEPT !.URL.Scheme = "https",
                !.URL.Host = HOST_OPENAI_API,
                !.Host = HOST_OPENAI_API,
                !.Header = [n \in {"Authorization"} |-> "Bearer " \o k]]

\* director := func(req *http.Request) { ... }, with target and key captured
director(req, k) ==
    [req EXCEPT !.URL.Scheme = "https",
                !.URL.Host = HOST_OPENAI_API,
                !.Host = HOST_OPENAI_API,
                !.Header = Set(@, "Authorization", "Bearer " \o k)]

\* proxy.ServeHTTP(w, r), first half: the director rewrites a copy of the
\* request and the copy is sent upstream
ServeHTTP(r) ==
    /\ pc[r] = "serve"
    /\ outreq' = [outreq EXCEPT ![r] = director(r_in[r], key[r])]
    /\ calls' = [calls EXCEPT ![r] = @ + 1]
    /\ pc' = [pc EXCEPT ![r] = "upstream"]
    /\ UNCHANGED <<config, accessCounter, mu, r_in, count, key, resp, logs>>

\* the second half with a retry: a failed round trip is started again
RelayResponseRetry(r, ok) ==
    /\ pc[r] = "upstream"
    /\ IF ok
       THEN /\ resp' = [resp EXCEPT ![r] =
                          [Status |-> 200, From |-> "upstream", Body |-> "upstream"]]
            /\ pc' = [pc EXCEPT ![r] = IF program = "main" THEN "done" ELSE "logresp"]
       ELSE /\ pc' = [pc EXCEPT ![r] = "serve"]
            /\ UNCHANGED resp
    /\ UNCHANGED <<config, accessCounter, mu, r_in, count, key, outreq, calls, logs>>

\* proxy.ServeHTTP(w, r), second half: the upstream response is copied to
\* the caller, or the round trip fails and the caller gets 502 Bad Gateway
RelayResponse(r, ok) ==
    /\ pc[r] = "upstream"
    /\ resp' = [resp EXCEPT ![r] =
                  IF ok THEN [Status |-> 200, From |-> "upstream", Body |-> "upstream"]
                        ELSE [Status |-> 502, From |-> "proxy", Body |-> ""]]
    /\ pc' = [pc EXCEPT ![r] = IF program = "main" THEN "done" ELSE "logresp"]
    /\ UNCHANGED <<config, accessCounter, mu, r_in, count, key, outreq, calls, logs>>

\* ------------------------------ ReverseProxyHandler, src/unnamed/part_000

\* log.Printf("*** request from %s with auth: %s\n", r.RemoteAddr,
\*            r.Header.Get("Authorization"))
LogRequestAuth(r) ==
    /\ pc[r] = "logauth"
    /\ Printf([msg |-> "request", no |-> 0, addr |-> RemoteAddr(r),
               text |-> Get(r_in[r].Header, "Authorization")])
    /\ pc' = [pc EXCEPT ![r] = "auth"]
    /\ UNCHANGED <<config, accessCounter, mu, r_in, count, key, outreq, calls, resp>>

\* log.Printf("*** response with header: %s\n", w.Header())
LogResponse(r) ==
    /\ pc[r] = "logresp"
    /\ Printf([msg |-> "response", no |-> 0, addr |-> 0, text |-> ""])
    /\ pc' = [pc EXCEPT ![r] = "done"]
    /\ UNCHANGED <<config, accessCounter, mu, r_in, count, key, outreq, calls, resp>>

\* --------------------------------------------------------- specification

Next ==
    \E r \in Reqs :
        \/ \E req \in Requests : Serve(r, req)
        \/ Lock(r)
        \/ Increment(r)
        \/ Copy(r)
        \/ Unlock(r)
        \/ LogRequest(r)
        \/ CheckLimit(r)
        \/ ExtractKey(r)
        \/ LookupKey(r)
        \/ ServeHTTP(r)
        \/ \E ok \in BOOLEAN : RelayResponse(r, ok)
        \/ LogRequestAuth(r)
        \/ LogResponse(r)

\* a step of the handler of request r other than the arrival of the
\* upstream's answer
HandlerStep(r) ==
    \/ Lock(r)
    \/ Increment(r)
    \/ Copy(r)
    \/ Unlock(r)
    \/ LogRequest(r)
    \/ CheckLimit(r)
    \/ ExtractKey(r)
    \/ LookupKey(r)
    \/ ServeHTTP(r)
    \/ LogRequestAuth(r)
    \/ LogResponse(r)

Spec == Init /\ [][Next]_vars

\* the goroutines are scheduled fairly: a handler that can take a step
\* takes it, and sync.Mutex hands the mutex to a waiting handler; nothing
\* makes the upstream answer, nor a caller send a request
FairSpec == Spec /\ \A r \in Reqs : WF_vars(HandlerStep(r))

\* ------------------------------------------------------------- vocabulary

\* the requests the server has accepted
Arrived == { r \in Reqs : pc[r] # "idle" }

\* the requests that hold an ordinal
Numbered == { r \in Reqs : count[r] # 0 }

\* the requests past the limit check, one way or the other
Decided == { r \in Reqs : pc[r] \in {"auth", "lookup", "serve", "upstream", "done"} }

\* the requests answered with the handler's own 422
Rejected == { r \in Reqs : resp[r].Status = StatusUnprocessableEntity
                           /\ resp[r].From = "handler" }

\* the requests let through the limit check
Admitted == Decided \ Rejected

\* the requests for which an upstream round trip was started
Forwarded == { r \in Reqs : calls[r] > 0 }

Ordinals == { count[r] : r \in Numbered }

Min(a, b) == IF a <= b THEN a ELSE b

\* the Authorization header the caller sent ("" when absent)
AuthOf(r) == Get(r_in[r].Header, "Authorization")

\* the credential after "Bearer " in a header that starts with it
CredentialOf(h) == SubSeq(h, 8, Len(h))

\* ------------------------------------------------------------------ claims

\* C1: with a ceiling C >= 0, whatever the interleaving of N concurrent
\* requests, no two requests hold the same ordinal; once all N hold one the
\* ordinals are exactly 1..N; and once all N are past the limit check exactly
\* min(N, C) were admitted and N - min(N, C) rejected.
C1_AdmissionCounts ==
    (program = "main" /\ accessCountLimit >= 0) =>
        /\ \A r1, r2 \in Numbered : r1 # r2 => count[r1] # count[r2]
        /\ Arrived = Numbered => Ordinals = 1..Cardinality(Arrived)
        /\ Arrived = Decided =>
              /\ Cardinality(Admitted) = Min(Cardinality(Arrived), accessCountLimit)
              /\ Cardinality(Rejected) =
                    Cardinality(Arrived) - Min(Cardinality(Arrived), accessCountLimit)

\* C1 witness: two concurrent requests under a ceiling of 1, both past the
\* limit check, one admitted and one rejected
C1_Witness ==
    /\ program = "main" /\ accessCountLimit = 1
    /\ Cardinality(Arrived) = 2 /\ Arrived = Decided
    /\ Cardinality(Admitted) = 1 /\ Cardinality(Rejected) = 1

\* C2: a request whose ordinal exceeds the ceiling gets the handler's own
\* 422 and never reaches the forwarder: no key extraction, no outbound
\* request, no upstream call.
C2_RejectedNeverForwarded ==
    \A r \in Reqs :
        (accessCountLimit # NoLimit /\ count[r] > accessCountLimit) =>
            /\ pc[r] \notin {"auth", "lookup", "serve", "upstream", "logresp"}
            /\ calls[r] = 0
            /\ outreq[r] = NoRequest
            /\ pc[r] = "done" =>
                  /\ resp[r].Status = StatusUnprocessableEntity
                  /\ resp[r].From = "handler"

\* C2 witness: a rejected request has been answered while another request
\* is with the upstream
C2_Witness ==
    \E r, q \in Reqs :
        /\ r \in Rejected /\ pc[r] = "done"
        /\ pc[q] = "upstream"

\* C3: an admitted request with "Authorization: Bearer <k>", k on the
\* allow-list, goes upstream with "Authorization: Bearer <real key>".
C3_VirtualKeyReplaced ==
    \A r \in Forwarded :
        (HasPrefix(AuthOf(r), "Bearer ") /\ CredentialOf(AuthOf(r)) \in virtualKeys) =>
            /\ "Authorization" \in DOMAIN outreq[r].Header
            /\ outreq[r].Header["Authorization"] = "Bearer " \o realKey

\* C3 witness: a request presenting the virtual key abc is upstream while
\* another request is in flight
C3_Witness ==
    \E r, q \in Reqs :
        /\ r # q /\ r \in Forwarded /\ AuthOf(r) = "Bearer abc"
        /\ "abc" \in virtualKeys
        /\ pc[q] \notin {"idle", "done"}

C5_RejectedIffAboveCeiling ==
    /\ \A r \in Decided :
          (r \in Rejected) <=>
              (accessCountLimit # NoLimit /\ count[r] > accessCountLimit)
    /\ \A r \in Reqs : r \in Rejected => r \in Decided
    /\ accessCountLimit = NoLimit => Rejected = {}

\* C5 witness: the request whose ordinal equals the ceiling was admitted and
\* the next ordinal was rejected
C5_Witness ==
    \E r, q \in Decided :
        /\ accessCountLimit # NoLimit
        /\ count[r] = accessCountLimit /\ r \in Admitted
        /\ count[q] = accessCountLimit + 1 /\ q \in Rejected

\* the requests whose handler has executed accessCounter++
Counted == { r \in Reqs : pc[r] \notin {"idle", "lock", "inc"} }

\* C6: the counter equals the number of requests that have passed the
\* increment, admitted or rejected; a step leaves it alone or adds one to it
\* (it never decreases, so a rejected request's ordinal is never handed out
\* again).
C6_CounterOncePerRequest ==
    /\ [](program = "main" => accessCounter = Cardinality(Counted))
    /\ [][accessCounter' = accessCounter \/ accessCounter' = accessCounter + 1]_vars
    /\ [](\A r \in Rejected, q \in Reqs : q # r => count[q] # count[r])

\* C6 witness: a request has been rejected and the counter stands at two
C6_Witness ==
    /\ Rejected # {}
    /\ accessCounter = 2
    /\ Cardinality(Counted) = 2

\* C7: no log record carries the real key, and neither does a response the
\* gateway writes itself (the handler's 422, the proxy's 502), whatever the
\* requests were.
C7_SecretNeverLoggedOrEchoed ==
    /\ \A rec \in BagToSet(logs) : ~Contains(rec.text, realKey)
    /\ \A r \in Reqs :
          resp[r].From \in {"handler", "proxy"} => ~Contains(resp[r].Body, realKey)

C9_ForwardedAtMostCeiling ==
    accessCountLimit # NoLimit => Cardinality(Forwarded) <= accessCountLimit

\* C9 witness: the ceiling is reached: as many requests are upstream as the
\* ceiling allows, and a further request has arrived
C9_Witness ==
    /\ accessCountLimit >= 1
    /\ Cardinality(Forwarded) = accessCountLimit
    /\ Cardinality(Arrived) > accessCountLimit

C11_NoRetry ==
    \A r \in Reqs :
        /\ calls[r] <= 1
        /\ pc[r] = "upstream" => calls[r] = 1 /\ resp[r] = NoResponse
        /\ resp[r].From = "proxy" =>
              /\ resp[r].Status = 502
              /\ calls[r] = 1
              /\ pc[r] \in {"done", "logresp"}
        /\ (pc[r] = "done" /\ r \notin Rejected) =>
              /\ calls[r] = 1
              /\ resp[r].From \in {"upstream", "proxy"}

\* C11 witness: one request's round trip has failed and it was answered
\* with 502, while another request's round trip succeeded
C11_Witness ==
    \E r, q \in Reqs :
        /\ pc[r] = "done" /\ resp[r].From = "proxy" /\ resp[r].Status = 502
        /\ pc[q] = "done" /\ resp[q].From = "upstream"

\* the character of s at position i
CharAt(s, i) == SubSeq(s, i, i)

\* positions p..q of s hold a key: no newline and no white space at either
\* end, and nothing but white space between it and the ends of its line
KeySpan(s, p, q) ==
    /\ p <= q
    /\ ~IsSpace(CharAt(s, p)) /\ ~IsSpace(CharAt(s, q))
    /\ \A t \in p..q : CharAt(s, t) # "\n"
    /\ \A t \in 1..(p - 1) :
          (\A u \in t..(p - 1) : CharAt(s, u) # "\n") => IsSpace(CharAt(s, t))
    /\ \A t \in (q + 1)..Len(s) :
          (\A u \in (q + 1)..t : CharAt(s, u) # "\n") => IsSpace(CharAt(s, t))

\* the number of lines of s: one more than its newlines
LineCount(s) == Cardinality({ i \in 1..Len(s) : CharAt(s, i) = "\n" }) + 1

\* C12: when config's loop is through the file, the allow-list is exactly
\* the set of the non-empty trimmed lines: every line that is not blank
\* contributes its text without the surrounding white space, once however
\* often it occurs, and nothing else is in the set; no entry is empty or
\* starts or ends with white space. "  tok1\n\n tok2 \n" gives {tok1, tok2}.
C12_AllowListLoading ==
    line = LineCount(content) =>
        /\ virtualKeys =
              { SubSeq(content, pq[1], pq[2]) :
                  pq \in { x \in (1..Len(content)) \X (1..Len(content)) :
                             KeySpan(content, x[1], x[2]) } }
        /\ \A k \in virtualKeys :
              /\ k # ""
              /\ ~IsSpace(CharAt(k, 1)) /\ ~IsSpace(CharAt(k, Len(k)))
        /\ content = "  tok1\n\n tok2 \n" => virtualKeys = {"tok1", "tok2"}

\* C12 witness: the file "  tok1\n\n tok2 \n" has been loaded
C12_Witness ==
    /\ content = "  tok1\n\n tok2 \n"
    /\ line = 4
    /\ virtualKeys = {"tok1", "tok2"}

\* the requests whose handler is past its request log line (src/main.go)
Logged == { r \in Reqs : pc[r] \in {"check", "auth", "lookup", "serve", "upstream", "done"} }

\* the requests whose handler is past the virtual key lookup
LookedUp == { r \in Reqs : calls[r] > 0 \/ pc[r] = "serve" }

\* the key a request presents: what follows "Bearer ", or ""
PresentedKey(r) ==
    IF HasPrefix(AuthOf(r), "Bearer ") THEN CredentialOf(AuthOf(r)) ELSE ""

\* the records of one kind in the log
RecordsOf(kind) == { rec \in BagToSet(logs) : rec.msg = kind }

\* C13: in the proxy with the access limit, a request past its log line has
\* exactly one request record, with its remote address and its own ordinal,
\* and a request not yet there has none; there are as many limit-exceeded
\* records as rejected requests and as many no-virtual-key records as
\* requests looked up with a key that is not on the allow-list (so an
\* admitted request with an allow-listed key adds neither); nothing else is
\* logged.
C13_LogRecords ==
    program = "main" =>
        /\ \A r \in Reqs :
              { rec \in RecordsOf("request") : rec.addr = RemoteAddr(r) } =
                  IF r \in Logged
                  THEN { [msg |-> "request", no |-> count[r],
                          addr |-> RemoteAddr(r), text |-> ""] }
                  ELSE {}
        /\ \A rec \in RecordsOf("request") :
              CopiesIn(rec, logs) = 1 /\ rec.addr \in { RemoteAddr(r) : r \in Reqs }
        /\ \A rec \in RecordsOf("limit exceeded") : rec.no = accessCountLimit
        /\ Cardinality(RecordsOf("limit exceeded")) <= 1
        /\ Cardinality(RecordsOf("no virtual key")) <= 1
        /\ BagCardinality(logs) =
              Cardinality(Logged) + Cardinality(Rejected)
                + Cardinality({ r \in LookedUp : PresentedKey(r) \notin virtualKeys })
        /\ (Rejected = {}) = (RecordsOf("limit exceeded") = {})
        /\ \A rec \in RecordsOf("limit exceeded") :
              CopiesIn(rec, logs) = Cardinality(Rejected)
        /\ \A rec \in RecordsOf("no virtual key") :
              CopiesIn(rec, logs) =
                  Cardinality({ r \in LookedUp : PresentedKey(r) \notin virtualKeys })
        /\ BagToSet(logs) = RecordsOf("request") \cup RecordsOf("limit exceeded")
                               \cup RecordsOf("no virtual key")

\* C13 witness: one request was rejected, another went upstream with an
\* allow-listed key: two request records, one limit-exceeded record and no
\* no-virtual-key record
C13_Witness ==
    \E r, q \in Reqs :
        /\ program = "main"
        /\ r \in Rejected /\ pc[r] = "done"
        /\ q \in Forwarded /\ PresentedKey(q) \in virtualKeys
        /\ Cardinality(RecordsOf("request")) = 2
        /\ RecordsOf("limit exceeded") # {}
        /\ RecordsOf("no virtual key") = {}

\* the handlers between mu.Lock() and mu.Unlock()
InCritical == { r \in Reqs : pc[r] \in {"inc", "copy", "unlock"} }

\* the handlers that have left the critical section
PastUnlock == { r \in Reqs : pc[r] \in {"logreq", "check", "auth", "lookup", "serve",
                                          "upstream", "done"} }

\* C14: at most one handler is between Lock and Unlock, and it is the
\* holder of the mutex; the counter is written only by the holder, at its
\* increment; a handler's count is assigned only while it holds the mutex,
\* from the counter; and once past Unlock its count no longer changes,
\* whatever happens to the counter.
C14_CounterUnderMutex ==
    /\ [](Cardinality(InCritical) <= 1 /\ \A r \in InCritical : mu = r)
    /\ [][accessCounter' # accessCounter =>
             \E r \in Reqs : mu = r /\ pc[r] = "inc" /\ pc'[r] = "copy"]_vars
    /\ [][\A r \in Reqs : count'[r] # count[r] =>
             mu = r /\ pc[r] = "copy" /\ count'[r] = accessCounter]_vars
    /\ [][\A r \in PastUnlock : count'[r] = count[r]]_vars

\* C14 witness: one handler is inside the critical section, about to copy
\* the counter, while another waits for the mutex
C14_Witness ==
    \E r, q \in Reqs :
        /\ pc[r] = "copy" /\ mu = r /\ accessCounter = 1 /\ count[r] = 0
        /\ pc[q] = "lock"

\* the ordinal the abstract admit() has given a request: none before the
\* increment, the counter between increment and copy, the count afterwards
aOrd(r) ==
    IF pc[r] \in {"idle", "lock", "inc"} THEN 0
    ELSE IF pc[r] = "copy" THEN accessCounter
    ELSE count[r]

aOrds == [r \in Reqs |-> aOrd(r)]

\* the abstract admit(): increment and ordinal in one step
AbsAdmit(r) ==
    /\ aOrd(r) = 0
    /\ accessCounter' = accessCounter + 1
    /\ aOrds' = [aOrds EXCEPT ![r] = accessCounter + 1]

\* the abstract admit()'s answer for an ordinal
AbsRejected(n) == accessCountLimit # NoLimit /\ n > accessCountLimit

\* C15: the handlers refine an admit() that increments, numbers and decides
\* in one atomic step. Every step of the program either leaves counter and
\* ordinals alone or is one admit() (at the handler's increment); the
\* ordinal a handler copies is the one admit() gave it; and the answer the
\* handler gives after releasing the mutex is admit()'s answer for it.
C15_RefinesAtomicAdmit ==
    /\ accessCounter = 0 /\ \A r \in Reqs : aOrd(r) = 0
    /\ [][\E r \in Reqs : AbsAdmit(r)]_<<accessCounter, aOrds>>
    /\ [](\A r \in Numbered : count[r] = aOrd(r))
    /\ [](\A r \in Decided : (r \in Rejected) <=> AbsRejected(aOrd(r)))

\* C15 witness: the handler with ordinal 2 has been rejected before the
\* handler with ordinal 1 has reached its limit check
C15_Witness ==
    \E r, q \in Reqs :
        /\ count[r] = 1 /\ pc[r] = "logreq"
        /\ count[q] = 2 /\ q \in Rejected

\* C16: under fair scheduling a handler that has entered gets its ordinal
\* and leaves the critical section, the mutex is released again whenever it
\* is taken, and every handler gets as far as its rejection or its upstream
\* call, even when the upstream calls of the other requests never return.
C16_GateProgress ==
    /\ \A r \in Reqs : pc[r] = "lock" ~> (r \in PastUnlock /\ count[r] # 0)
    /\ (mu # 0) ~> (mu = 0)
    /\ \A r \in Reqs : pc[r] \notin {"idle", "upstream", "done"} ~>
                          pc[r] \in {"upstream", "done"}

\* C16 witness: the request with ordinal 1 is still waiting for the
\* upstream while the request with ordinal 2 has been forwarded and answered
C16_Witness ==
    \E r, q \in Reqs :
        /\ count[r] = 1 /\ pc[r] = "upstream" /\ resp[r] = NoResponse
        /\ count[q] = 2 /\ pc[q] = "done" /\ q \in Forwarded

\* what belongs to the handler of request r
Locals(r) == <<pc[r], r_in[r], count[r], key[r], outreq[r], calls[r], resp[r]>>

\* C17: no step of any handler changes the allow-list, the real key or the
\* access limit; and a step changes the locals of one handler at most, so
\* that the counter (with its mutex and the log) is all the handlers share
\* and modify.
C17_ConfigReadOnly ==
    /\ [][/\ virtualKeys' = virtualKeys
          /\ realKey' = realKey
          /\ accessCountLimit' = accessCountLimit]_vars
    /\ [][Cardinality({ r \in Reqs : Locals(r)' # Locals(r) }) <= 1]_vars

\* C17 witness: with the limit at 1, one request was rejected and one went
\* upstream with the real key in place of a virtual one, and both are over
C17_Witness ==
    \E r, q \in Reqs :
        /\ accessCountLimit = 1 /\ realKey = "real" /\ virtualKeys = {"abc", "tok2"}
        /\ pc[r] = "done" /\ r \in Rejected
        /\ pc[q] = "done" /\ q \in Forwarded /\ PresentedKey(q) = "abc"

====
